---- MODULE Spec2Model ----
(***************************************************************************)
(* Model of backend_test_for_get_missing_calls.py: the BitoleStudiosAPI-   *)
(* Tester object, its run_test primitive, the 18 test cases and the driver *)
(* main().  The backend is the environment: for every request it answers   *)
(* with a (status, raw text) pair or the transport raises.                 *)
(*                                                                         *)
(* A raw response text is a sequence of one-character strings.  A Python   *)
(* value (the result of response.json(), a captured token or id) is a      *)
(* tagged record:  [t |-> "null"]            None / JSON null              *)
(*                 [t |-> "num",  v |-> n]   int                           *)
(*                 [t |-> "str",  v |-> cs]  str, cs a sequence of chars   *)
(*                 [t |-> "list", v |-> xs]  list                          *)
(*                 [t |-> "dict", v |-> f]   dict, f a function on keys    *)
(***************************************************************************)
EXTENDS Integers, Sequences, FiniteSets, TLC

VARIABLES
  pc,            \* position of main(): "loop", "report" or "done"
  i,             \* index (1..18) of the next entry of main()'s tests list
  tests_run,     \* self.tests_run
  tests_passed,  \* self.tests_passed
  failed_tests,  \* self.failed_tests
  admin_token,   \* self.admin_token
  worker_token,  \* self.worker_token
  test_user_id,  \* self.test_user_id   (Absent until the attribute is set)
  test_call_id,  \* self.test_call_id   (Absent until the attribute is set)
  test_note_id,  \* self.test_note_id   (Absent until the attribute is set)
  exit_code,     \* the value main() returns (NoCode before the return)
  net,           \* number of requests.get/post/put/delete calls made so far
  rt_failed,     \* number of records run_test itself appended
  caught,        \* number of exceptions caught by main()'s except clause
  observed,      \* what the creating cases saw: "expected" status or "other"
  last           \* what the last test case did: its request, the backend's
                 \* answer, run_test's result and the case's return value

vars == <<pc, i, tests_run, tests_passed, failed_tests, admin_token,
          worker_token, test_user_id, test_call_id, test_note_id, exit_code,
          net, rt_failed, caught, observed, last>>

----------------------------------------------------------------------------
(* Bounds of the model. *)

\* At most this many FailureRecords are recorded in one run.
MaxFailures == 1

\* Length of the longest raw response text the backend sends.
LongLen == 203

(* Program constants. *)

\* response.text[:200]
ExcerptLen == 200

----------------------------------------------------------------------------
(* Python values. *)

PyNone == [t |-> "null"]
PyNum(n) == [t |-> "num", v |-> n]
PyStr(cs) == [t |-> "str", v |-> cs]
PyList(xs) == [t |-> "list", v |-> xs]
PyDict(f) == [t |-> "dict", v |-> f]
EmptyDict == PyDict(<<>>)

\* A missing attribute (hasattr(self, ...) is False).
Absent == [t |-> "absent"]

\* No value returned yet.
NoCode == -1

\* a == b on Python values
PyEq(a, b) == a.t = b.t /\ (a.t = "null" \/ a.v = b.v)

\* Truthy with the test dropped: the header is always sent
Truthy_always(v) == TRUE

\* bool(v): the truth value `if token:` tests
Truthy(v) ==
  CASE v.t = "null" -> FALSE
    [] v.t = "num" -> v.v # 0
    [] v.t = "str" -> Len(v.v) > 0
    [] v.t = "list" -> Len(v.v) > 0
    [] v.t = "dict" -> DOMAIN v.v # {}

\* cs occurs in ds as a contiguous run (str.__contains__)
IsSubstring(cs, ds) ==
  \E k \in 0..(Len(ds) - Len(cs)) : \A j \in 1..Len(cs) : ds[k + j] = cs[j]

\* `key in response`: [raised, val]
PyIn(key, r) ==
  CASE r.t = "dict" -> [raised |-> FALSE, val |-> key \in DOMAIN r.v]
    [] r.t = "list" ->
         [raised |-> FALSE,
          val |-> \E k \in 1..Len(r.v) : PyEq(r.v[k], PyStr(key))]
    [] r.t = "str" -> [raised |-> FALSE, val |-> IsSubstring(key, r.v)]
    [] OTHER -> [raised |-> TRUE, val |-> FALSE]

\* response.get(key): [raised, val]
PyGet(r, key) ==
  IF r.t = "dict"
    THEN [raised |-> FALSE,
          val |-> IF key \in DOMAIN r.v THEN r.v[key] ELSE PyNone]
    ELSE [raised |-> TRUE, val |-> PyNone]

\* response[key] with a str key, once `key in response` held: [raised, val]
PyItem(r, key) ==
  IF r.t = "dict" /\ key \in DOMAIN r.v
    THEN [raised |-> FALSE, val |-> r.v[key]]
    ELSE [raised |-> TRUE, val |-> PyNone]

\* token[:20] raises unless the token is a str or a list
SliceRaises(v) == v.t \notin {"str", "list"}

\* isinstance(response, list)
IsList(r) == r.t = "list"

\* text[:n]
Prefix(text, n) == SubSeq(text, 1, IF Len(text) < n THEN Len(text) ELSE n)

----------------------------------------------------------------------------
(* response.json(): a parser of JSON texts (objects, arrays, strings       *)
(* without escapes, unsigned integers, null; no white space).              *)

Digits == <<"0", "1", "2", "3", "4", "5", "6", "7", "8", "9">>
IsDigit(c) == \E d \in 1..10 : Digits[d] = c
DigitVal(c) == (CHOOSE d \in 1..10 : Digits[d] = c) - 1

ParseFail == [ok |-> FALSE, val |-> PyNone, next |-> 0]
ParseOk(v, n) == [ok |-> TRUE, val |-> v, next |-> n]

\* the string literal starting at position p
ParseString(s, p) ==
  IF p > Len(s) \/ s[p] # "\"" THEN ParseFail
  ELSE LET closing == {q \in (p + 1)..Len(s) : s[q] = "\""}
       IN IF closing = {} THEN ParseFail
          ELSE LET q == CHOOSE c \in closing : \A d \in closing : c <= d
               IN ParseOk(PyStr(SubSeq(s, p + 1, q - 1)), q + 1)

RECURSIVE NumValue(_, _, _)
NumValue(s, p, q) ==
  IF q < p THEN 0 ELSE 10 * NumValue(s, p, q - 1) + DigitVal(s[q])

\* the number starting at position p
ParseNumber(s, p) ==
  LET stop == {q \in p..(Len(s) + 1) : q = Len(s) + 1 \/ ~IsDigit(s[q])}
      q == CHOOSE c \in stop : \A d \in stop : c <= d
  IN IF q = p THEN ParseFail ELSE ParseOk(PyNum(NumValue(s, p, q - 1)), q)

NullText == <<"n", "u", "l", "l">>

\* The parser proper, in three modes: "value" reads the value that starts at
\* position p; "elems" reads the elements of an array after "[" or ",";
\* "members" reads the members of an object after "{" or ",".  acc holds the
\* elements or members read so far.
RECURSIVE Parse(_, _, _, _)
Parse(mode, s, p, acc) ==
  IF p > Len(s) THEN ParseFail
  ELSE IF mode = "elems" THEN
    LET e == Parse("value", s, p, <<>>)
    IN IF ~e.ok \/ e.next > Len(s) THEN ParseFail
       ELSE IF s[e.next] = "]"
         THEN ParseOk(PyList(Append(acc, e.val)), e.next + 1)
       ELSE IF s[e.next] = ","
         THEN Parse("elems", s, e.next + 1, Append(acc, e.val))
       ELSE ParseFail
  ELSE IF mode = "members" THEN
    LET k == ParseString(s, p)
    IN IF ~k.ok \/ k.next > Len(s) \/ s[k.next] # ":" THEN ParseFail
       ELSE LET e == Parse("value", s, k.next + 1, <<>>)
                f == [x \in DOMAIN acc \cup {k.val.v} |->
                        IF x = k.val.v THEN e.val ELSE acc[x]]
            IN IF ~e.ok \/ e.next > Len(s) THEN ParseFail
               ELSE IF s[e.next] = "}" THEN ParseOk(PyDict(f), e.next + 1)
               ELSE IF s[e.next] = ","
                 THEN Parse("members", s, e.next + 1, f)
               ELSE ParseFail
  ELSE CASE s[p] = "{" ->
              IF p < Len(s) /\ s[p + 1] = "}" THEN ParseOk(EmptyDict, p + 2)
              ELSE Parse("members", s, p + 1, <<>>)
         [] s[p] = "[" ->
              IF p < Len(s) /\ s[p + 1] = "]" THEN ParseOk(PyList(<<>>), p + 2)
              ELSE Parse("elems", s, p + 1, <<>>)
         [] s[p] = "\"" -> ParseString(s, p)
         [] IsDigit(s[p]) -> ParseNumber(s, p)
         [] s[p] = "n" ->
              IF p + 3 <= Len(s) /\ SubSeq(s, p, p + 3) = NullText
                THEN ParseOk(PyNone, p + 4) ELSE ParseFail
         [] OTHER -> ParseFail

\* the value that starts at position p
ParseValue(s, p) == Parse("value", s, p, <<>>)

\* the parse r of text is good when it read one value and all of the text
WholeText(text, r) ==
  IF r.ok /\ r.next = Len(text) + 1
    THEN [raised |-> FALSE, val |-> r.val]
    ELSE [raised |-> TRUE, val |-> PyNone]

\* response.json(): [raised, val]; raises unless the whole text is one value
ResponseJson(text) == WholeText(text, ParseValue(text, 1))

----------------------------------------------------------------------------
(* The backend: what it can answer to one request. *)

Q == "\""
Quoted(w) == <<Q>> \o w \o <<Q>>
Member(k, vtext) == Quoted(k) \o <<":">> \o vtext

K_token == <<"t", "o", "k", "e", "n">>
K_role == <<"r", "o", "l", "e">>
K_id == <<"i", "d">>
K_status == <<"s", "t", "a", "t", "u", "s">>
K_total_calls == <<"t", "o", "t", "a", "l", "_", "c", "a", "l", "l", "s">>
V_admin == <<"a", "d", "m", "i", "n">>
V_worker == <<"w", "o", "r", "k", "e", "r">>
V_contacted == <<"c", "o", "n", "t", "a", "c", "t", "e", "d">>
V_token == <<"a", "b">>

\* {"token":"ab","role":<role>,"id":7,"status":"contacted","total_calls":1}
BodyObject(role) ==
  <<"{">> \o Member(K_token, Quoted(V_token)) \o <<",">>
          \o Member(K_role, Quoted(role)) \o <<",">>
          \o Member(K_id, <<"7">>) \o <<",">>
          \o Member(K_status, Quoted(V_contacted)) \o <<",">>
          \o Member(K_total_calls, <<"1">>) \o <<"}">>

BodyEmpty == <<>>
\* {"token":5}
BodyNumToken == <<"{">> \o Member(K_token, <<"5">>) \o <<"}">>
\* ["token","total_calls"]
BodyList == <<"[">> \o Quoted(K_token) \o <<",">> \o Quoted(K_total_calls) \o <<"]">>
BodyNull == NullText
BodyHtml == <<"<", "h", "t", "m", "l", ">">>
\* a text of LongLen characters that is not JSON: "<" and then digits
BodyLong == [n \in 1..LongLen |-> IF n = 1 THEN "<" ELSE Digits[(n % 10) + 1]]

Response(status, text) == [kind |-> "resp", status |-> status, text |-> text]

\* str(e) of what requests raises, named by the exception's class
TransportError(e) == [kind |-> "error", error |-> e]

\* The backend's repertoire: what one request can be answered with.
Answers ==
  {Response(200, BodyObject(V_admin)), Response(200, BodyNumToken),
   Response(200, BodyList), Response(200, BodyNull),
   Response(200, BodyEmpty), Response(200, BodyHtml),
   Response(401, BodyHtml), Response(403, BodyLong),
   TransportError("ConnectionError"), TransportError("Timeout")}

----------------------------------------------------------------------------
(* str(v) as the f-strings of the endpoints format an id. *)

RECURSIVE NumStr(_)
NumStr(n) ==
  IF n < 10 THEN <<Digits[n + 1]>> ELSE NumStr(n \div 10) \o <<Digits[(n % 10) + 1]>>

FormatId(v) ==
  CASE v.t = "null" -> <<"N", "o", "n", "e">>
    [] v.t = "num" -> NumStr(v.v)
    [] v.t = "str" -> v.v

----------------------------------------------------------------------------
(* run_test: one request, the status check and the accounting.  The result *)
(* holds the tester's fields after the call and the returned pair.         *)

\* `response.status_code == expected_status`
StatusMatches(status, expected_status) == status = expected_status

\* Excerpt with the slice forgotten: the whole text is stored
Excerpt_whole(text) == text

\* response.text[:200], the excerpt of the failure record
Excerpt(text) == Prefix(text, ExcerptLen)

\* the bare `except: return success, {}` around the parse
OrEmpty(parsed) ==
  IF parsed.raised THEN [raised |-> FALSE, val |-> EmptyDict] ELSE parsed

\* JsonBody without the inner try/except: a parse error leaves the try block
JsonBody_uncaught(text) ==
  IF text = <<>> THEN [raised |-> FALSE, val |-> EmptyDict] ELSE ResponseJson(text)

\* `try: response.json() if response.text else {}` with its bare `except`,
\* which returns {}: [raised, val]
JsonBody(text) ==
  IF text = <<>> THEN [raised |-> FALSE, val |-> EmptyDict]
  ELSE OrEmpty(ResponseJson(text))

\* RecordError with the append forgotten
RecordError_dropped(name, e) == failed_tests

\* failed_tests.append({"test", "error"}) of the except clause
RecordError(name, e) == Append(failed_tests, [test |-> name, error |-> e])

\* failed_tests.append({"test", "expected", "actual", "response"})
RecordMismatch(name, expected_status, status, text) ==
  Append(failed_tests, [test |-> name, expected |-> expected_status,
                        actual |-> status, response |-> Excerpt(text)])

\* no request made
NoCall == [called |-> FALSE]

run_test(name, method, endpoint, expected_status, token, answer) ==
  LET request == [method |-> method, endpoint |-> endpoint,
                  authorization |-> Truthy(token)]
      Result(passed, failed, appended, success, response) ==
        [tests_run |-> tests_run + 1, tests_passed |-> passed,
         failed_tests |-> failed, appended |-> appended,
         success |-> success, response |-> response,
         call |-> [called |-> TRUE, name |-> name,
                   expected |-> expected_status, request |-> request,
                   answer |-> answer, success |-> success,
                   response |-> response]]
      \* the outer `except Exception as e`
      Except(passed, e) ==
        Result(passed, RecordError(name, e), 1, FALSE, EmptyDict)
      \* the branch of `if success`, body the result of the inner try
      Passed(body) ==
        IF body.raised
          THEN Except(tests_passed + 1, "JSONDecodeError")
          ELSE Result(tests_passed + 1, failed_tests, 0, TRUE, body.val)
  IN IF answer.kind = "error" THEN Except(tests_passed, answer.error)
     ELSE IF StatusMatches(answer.status, expected_status)
       THEN Passed(JsonBody(answer.text))
     ELSE Result(tests_passed,
                 RecordMismatch(name, expected_status, answer.status,
                                answer.text),
                 1, FALSE, EmptyDict)

\* HasAttr as a truth test of the attribute: an id of None counts as missing
HasAttr_truthy(v) == v # Absent /\ v # PyNone

\* hasattr(self, ...) on an attribute that holds v
HasAttr(v) == v # Absent

\* Skipped with the skip counted as a test run
Skipped_counted ==
  [tests_run |-> tests_run + 1, tests_passed |-> tests_passed,
   failed_tests |-> failed_tests, appended |-> 0, call |-> NoCall]

\* a dependent case that returns True before it calls run_test
Skipped ==
  [tests_run |-> tests_run, tests_passed |-> tests_passed,
   failed_tests |-> failed_tests, appended |-> 0, call |-> NoCall]

----------------------------------------------------------------------------
(* What a test case does with run_test's result: whether it returns True   *)
(* or False or raises, and the value it stores (set, val).                 *)

Returns(b) == [out |-> IF b THEN "True" ELSE "False", err |-> "", set |-> FALSE,
               val |-> PyNone]
Raises(e) == [out |-> "raise", err |-> e, set |-> FALSE, val |-> PyNone]
Stores(v, then) == [then EXCEPT !.set = TRUE, !.val = v]

\* test_admin_login, test_worker_login after run_test
LoginBody(rt) ==
  IF ~rt.success THEN Returns(FALSE)
  ELSE LET has == PyIn(K_token, rt.response)
           item == PyItem(rt.response, K_token)
       IN IF has.raised THEN Raises("TypeError")
          ELSE IF ~has.val THEN Returns(FALSE)
          ELSE IF item.raised THEN Raises("TypeError")
          ELSE IF SliceRaises(item.val) THEN Stores(item.val, Raises("TypeError"))
          ELSE Stores(item.val, Returns(TRUE))

\* `success and response.get(key) == value` of test_get_me_admin,
\* test_get_me_worker and test_update_call_status
FieldBody(rt, key, value) ==
  IF ~rt.success THEN Returns(FALSE)
  ELSE LET got == PyGet(rt.response, key)
       IN IF got.raised THEN Raises("AttributeError")
          ELSE Returns(PyEq(got.val, PyStr(value)))

\* `success and isinstance(response, list)`
ListBody(rt) == Returns(rt.success /\ IsList(rt.response))

\* `return success`
StatusBody(rt) == Returns(rt.success)

\* `if success: self.<id> = response.get('id')` of the creating cases
CreateBody(rt) ==
  IF ~rt.success THEN Returns(FALSE)
  ELSE LET got == PyGet(rt.response, K_id)
       IN IF got.raised THEN Raises("AttributeError")
          ELSE Stores(got.val, Returns(TRUE))

\* test_get_stats after run_test
StatsBody(rt) ==
  IF ~rt.success THEN Returns(FALSE)
  ELSE LET has == PyIn(K_total_calls, rt.response)
       IN IF has.raised THEN Raises("TypeError")
          ELSE IF ~has.val THEN Returns(FALSE)
          ELSE IF PyGet(rt.response, K_total_calls).raised
                 THEN Raises("AttributeError")
          ELSE Returns(TRUE)

----------------------------------------------------------------------------
(* main(): the tests list, the loop with its except clause, the report.    *)

\* the functions of main()'s tests list, in its order
Tests ==
  <<"test_health_check",
    "test_init_users",
    "test_admin_login",
    "test_worker_login",
    "test_invalid_login",
    "test_get_me_admin",
    "test_get_me_worker",
    "test_get_users_admin",
    "test_get_users_worker_forbidden",
    "test_create_user",
    "test_create_missed_call",
    "test_get_missed_calls",
    "test_update_call_status",
    "test_create_note",
    "test_get_notes",
    "test_get_stats",
    "test_change_password",
    "test_delete_user">>

\* the names main() gives them
TestNames ==
  <<"Health Check",
    "Initialize Users",
    "Admin Login",
    "Worker Login",
    "Invalid Login",
    "Get Me (Admin)",
    "Get Me (Worker)",
    "Get Users (Admin)",
    "Get Users (Worker - Forbidden)",
    "Create User",
    "Create Missed Call",
    "Get Missed Calls",
    "Update Call Status",
    "Create Note",
    "Get Notes",
    "Get Stats",
    "Change Password",
    "Delete User">>

\* an endpoint f-string: its text and the formatted id it interpolates
Endpoint(template, arg) == [template |-> template, arg |-> arg]

Init ==
  /\ pc = "loop"
  /\ i = 1
  /\ tests_run = 0
  /\ tests_passed = 0
  /\ failed_tests = <<>>
  /\ admin_token = PyNone
  /\ worker_token = PyNone
  /\ test_user_id = Absent
  /\ test_call_id = Absent
  /\ test_note_id = Absent
  /\ exit_code = NoCode
  /\ net = 0
  /\ rt_failed = 0
  /\ caught = 0
  /\ observed = [user |-> "pending", call |-> "pending"]
  /\ last = [case |-> 0, ret |-> "", call |-> NoCall]

\* Invoke without the try/except of the loop: a raising case ends main()
Invoke_no_except(rt, body) ==
  /\ tests_run' = rt.tests_run
  /\ tests_passed' = rt.tests_passed
  /\ failed_tests' = rt.failed_tests
  /\ Len(failed_tests') <= MaxFailures
  /\ caught' = caught
  /\ rt_failed' = rt_failed + rt.appended
  /\ net' = IF rt.call.called THEN net + 1 ELSE net
  /\ last' = [case |-> i, ret |-> body.out, call |-> rt.call]
  /\ i' = i + 1
  /\ pc' = IF body.out = "raise" THEN "crashed"
           ELSE IF i = Len(Tests) THEN "report" ELSE "loop"
  /\ exit_code' = exit_code

\* One pass of main()'s loop body around test_func(): the tester's fields as
\* the case left them, the except clause when the case raised, the next entry.
Invoke(rt, body) ==
  /\ tests_run' = rt.tests_run
  /\ tests_passed' = rt.tests_passed
  /\ failed_tests' =
       IF body.out = "raise"
         THEN Append(rt.failed_tests, [test |-> TestNames[i], error |-> body.err])
         ELSE rt.failed_tests
  /\ Len(failed_tests') <= MaxFailures
  /\ caught' = IF body.out = "raise" THEN caught + 1 ELSE caught
  /\ rt_failed' = rt_failed + rt.appended
  /\ net' = IF rt.call.called THEN net + 1 ELSE net
  /\ last' = [case |-> i, ret |-> body.out, call |-> rt.call]
  /\ i' = i + 1
  /\ pc' = IF i = Len(Tests) THEN "report" ELSE "loop"
  /\ exit_code' = exit_code

\* the loop is at the entry that holds test function f
At(f) == pc = "loop" /\ i \in 1..Len(Tests) /\ Tests[i] = f

\* what a creating case saw of the status it expects
Saw(rt) == IF rt.success THEN "expected" ELSE "other"

test_health_check ==
  /\ At("test_health_check")
  /\ \E answer \in Answers :
       LET rt == run_test("API Health Check", "GET",
                          Endpoint("", <<>>),
                          200, PyNone, answer)
           body == StatusBody(rt)
       IN Invoke(rt, body)
  /\ UNCHANGED <<admin_token, worker_token, test_user_id,
                 test_call_id, test_note_id, observed>>

test_init_users ==
  /\ At("test_init_users")
  /\ \E answer \in Answers :
       LET rt == run_test("Initialize Users", "POST",
                          Endpoint("init-users", <<>>),
                          200, PyNone, answer)
           body == StatusBody(rt)
       IN Invoke(rt, body)
  /\ UNCHANGED <<admin_token, worker_token, test_user_id,
                 test_call_id, test_note_id, observed>>

test_admin_login ==
  /\ At("test_admin_login")
  /\ \E answer \in Answers :
       LET rt == run_test("Admin Login", "POST",
                          Endpoint("auth/login", <<>>),
                          200, PyNone, answer)
           body == LoginBody(rt)
       IN /\ Invoke(rt, body)
          /\ admin_token' = IF body.set THEN body.val ELSE admin_token
  /\ UNCHANGED <<worker_token, test_user_id, test_call_id,
                 test_note_id, observed>>

test_worker_login ==
  /\ At("test_worker_login")
  /\ \E answer \in Answers :
       LET rt == run_test("Worker Login (maria)", "POST",
                          Endpoint("auth/login", <<>>),
                          200, PyNone, answer)
           body == LoginBody(rt)
       IN /\ Invoke(rt, body)
          /\ worker_token' = IF body.set THEN body.val ELSE worker_token
  /\ UNCHANGED <<admin_token, test_user_id, test_call_id,
                 test_note_id, observed>>

test_invalid_login ==
  /\ At("test_invalid_login")
  /\ \E answer \in Answers :
       LET rt == run_test("Invalid Login", "POST",
                          Endpoint("auth/login", <<>>),
                          401, PyNone, answer)
           body == StatusBody(rt)
       IN Invoke(rt, body)
  /\ UNCHANGED <<admin_token, worker_token, test_user_id,
                 test_call_id, test_note_id, observed>>

test_get_me_admin ==
  /\ At("test_get_me_admin")
  /\ \E answer \in Answers :
       LET rt == run_test("Get Me (Admin)", "GET",
                          Endpoint("auth/me", <<>>),
                          200, admin_token, answer)
           body == FieldBody(rt, K_role, V_admin)
       IN Invoke(rt, body)
  /\ UNCHANGED <<admin_token, worker_token, test_user_id,
                 test_call_id, test_note_id, observed>>

test_get_me_worker ==
  /\ At("test_get_me_worker")
  /\ \E answer \in Answers :
       LET rt == run_test("Get Me (Worker)", "GET",
                          Endpoint("auth/me", <<>>),
                          200, worker_token, answer)
           body == FieldBody(rt, K_role, V_worker)
       IN Invoke(rt, body)
  /\ UNCHANGED <<admin_token, worker_token, test_user_id,
                 test_call_id, test_note_id, observed>>

test_get_users_admin ==
  /\ At("test_get_users_admin")
  /\ \E answer \in Answers :
       LET rt == run_test("Get Users (Admin)", "GET",
                          Endpoint("users", <<>>),
                          200, admin_token, answer)
           body == ListBody(rt)
       IN Invoke(rt, body)
  /\ UNCHANGED <<admin_token, worker_token, test_user_id,
                 test_call_id, test_note_id, observed>>

test_get_users_worker_forbidden ==
  /\ At("test_get_users_worker_forbidden")
  /\ \E answer \in Answers :
       LET rt == run_test("Get Users (Worker - Should Fail)", "GET",
                          Endpoint("users", <<>>),
                          403, worker_token, answer)
           body == StatusBody(rt)
       IN Invoke(rt, body)
  /\ UNCHANGED <<admin_token, worker_token, test_user_id,
                 test_call_id, test_note_id, observed>>

test_create_user ==
  /\ At("test_create_user")
  /\ \E answer \in Answers :
       LET rt == run_test("Create User", "POST",
                          Endpoint("users", <<>>),
                          200, admin_token, answer)
           body == CreateBody(rt)
       IN /\ Invoke(rt, body)
          /\ test_user_id' = IF body.set THEN body.val ELSE test_user_id
          /\ observed' = [observed EXCEPT !.user = Saw(rt)]
  /\ UNCHANGED <<admin_token, worker_token, test_call_id,
                 test_note_id>>

test_create_missed_call ==
  /\ At("test_create_missed_call")
  /\ \E answer \in Answers :
       LET rt == run_test("Create Missed Call", "POST",
                          Endpoint("missed-calls", <<>>),
                          200, PyNone, answer)
           body == CreateBody(rt)
       IN /\ Invoke(rt, body)
          /\ test_call_id' = IF body.set THEN body.val ELSE test_call_id
          /\ observed' = [observed EXCEPT !.call = Saw(rt)]
  /\ UNCHANGED <<admin_token, worker_token, test_user_id,
                 test_note_id>>

test_get_missed_calls ==
  /\ At("test_get_missed_calls")
  /\ \E answer \in Answers :
       LET rt == run_test("Get Missed Calls", "GET",
                          Endpoint("missed-calls", <<>>),
                          200, worker_token, answer)
           body == ListBody(rt)
       IN Invoke(rt, body)
  /\ UNCHANGED <<admin_token, worker_token, test_user_id,
                 test_call_id, test_note_id, observed>>

test_update_call_status ==
  /\ At("test_update_call_status")
  /\ \/ /\ ~HasAttr(test_call_id)
        /\ Invoke(Skipped, Returns(TRUE))
     \/ /\ HasAttr(test_call_id)
        /\ \E answer \in Answers :
             LET rt == run_test("Update Call Status", "PUT",
                                Endpoint("missed-calls/{}", FormatId(test_call_id)),
                                200, worker_token, answer)
                 body == FieldBody(rt, K_status, V_contacted)
             IN Invoke(rt, body)
  /\ UNCHANGED <<admin_token, worker_token, test_user_id,
                 test_call_id, test_note_id, observed>>

test_create_note ==
  /\ At("test_create_note")
  /\ \/ /\ ~HasAttr(test_call_id)
        /\ Invoke(Skipped, Returns(TRUE))
        /\ UNCHANGED test_note_id
     \/ /\ HasAttr(test_call_id)
        /\ \E answer \in Answers :
             LET rt == run_test("Create Note", "POST",
                                Endpoint("notes", <<>>),
                                200, worker_token, answer)
                 body == CreateBody(rt)
             IN /\ Invoke(rt, body)
                /\ test_note_id' = IF body.set THEN body.val ELSE test_note_id
  /\ UNCHANGED <<admin_token, worker_token, test_user_id,
                 test_call_id, observed>>

test_get_notes ==
  /\ At("test_get_notes")
  /\ \/ /\ ~HasAttr(test_call_id)
        /\ Invoke(Skipped, Returns(TRUE))
     \/ /\ HasAttr(test_call_id)
        /\ \E answer \in Answers :
             LET rt == run_test("Get Notes", "GET",
                                Endpoint("notes/{}", FormatId(test_call_id)),
                                200, worker_token, answer)
                 body == ListBody(rt)
             IN Invoke(rt, body)
  /\ UNCHANGED <<admin_token, worker_token, test_user_id,
                 test_call_id, test_note_id, observed>>

test_get_stats ==
  /\ At("test_get_stats")
  /\ \E answer \in Answers :
       LET rt == run_test("Get Stats", "GET",
                          Endpoint("stats", <<>>),
                          200, worker_token, answer)
           body == StatsBody(rt)
       IN Invoke(rt, body)
  /\ UNCHANGED <<admin_token, worker_token, test_user_id,
                 test_call_id, test_note_id, observed>>

test_change_password ==
  /\ At("test_change_password")
  /\ \/ /\ ~HasAttr(test_user_id)
        /\ Invoke(Skipped, Returns(TRUE))
     \/ /\ HasAttr(test_user_id)
        /\ \E answer \in Answers :
             LET rt == run_test("Change User Password", "PUT",
                                Endpoint("users/{}/password", FormatId(test_user_id)),
                                200, admin_token, answer)
                 body == StatusBody(rt)
             IN Invoke(rt, body)
  /\ UNCHANGED <<admin_token, worker_token, test_user_id,
                 test_call_id, test_note_id, observed>>

test_delete_user ==
  /\ At("test_delete_user")
  /\ \/ /\ ~HasAttr(test_user_id)
        /\ Invoke(Skipped, Returns(TRUE))
     \/ /\ HasAttr(test_user_id)
        /\ \E answer \in Answers :
             LET rt == run_test("Delete User", "DELETE",
                                Endpoint("users/{}", FormatId(test_user_id)),
                                200, admin_token, answer)
                 body == StatusBody(rt)
             IN Invoke(rt, body)
  /\ UNCHANGED <<admin_token, worker_token, test_user_id,
                 test_call_id, test_note_id, observed>>

\* ExitCode decided by the failures list instead of the counters
ExitCode_by_failures == IF failed_tests = <<>> THEN 0 ELSE 1

\* `return 0 if tester.tests_passed == tester.tests_run else 1`
ExitCode == IF tests_passed = tests_run THEN 0 ELSE 1

\* the report of main() and its return; the success rate divides by tests_run,
\* and a ZeroDivisionError ends main() without a return value
Report ==
  /\ pc = "report"
  /\ IF tests_run = 0
       THEN pc' = "crashed" /\ exit_code' = exit_code
       ELSE pc' = "done" /\ exit_code' = ExitCode
  /\ UNCHANGED <<i, tests_run, tests_passed, failed_tests, admin_token,
                 worker_token, test_user_id, test_call_id, test_note_id,
                 net, rt_failed, caught, observed, last>>

Next ==
  \/ test_health_check
  \/ test_init_users
  \/ test_admin_login
  \/ test_worker_login
  \/ test_invalid_login
  \/ test_get_me_admin
  \/ test_get_me_worker
  \/ test_get_users_admin
  \/ test_get_users_worker_forbidden
  \/ test_create_user
  \/ test_create_missed_call
  \/ test_get_missed_calls
  \/ test_update_call_status
  \/ test_create_note
  \/ test_get_notes
  \/ test_get_stats
  \/ test_change_password
  \/ test_delete_user
  \/ Report

Spec == Init /\ [][Next]_vars

\* main() runs to its end: each request returns or raises within its timeout
\* of 10 seconds, and nothing else in the loop waits
FairSpec == Spec /\ WF_vars(Next)

----------------------------------------------------------------------------
(* The claims. *)

\* the step invokes the test case at entry i of the tests list
InvokesCase == i' = i + 1

\* the cases that need the id of the created call, of the created user
DependsOnCall == {"test_update_call_status", "test_create_note", "test_get_notes"}
DependsOnUser == {"test_change_password", "test_delete_user"}

\* the cases that pass self.admin_token, self.worker_token to run_test
UsesAdminToken ==
  {"test_get_me_admin", "test_get_users_admin", "test_create_user",
   "test_change_password", "test_delete_user"}
UsesWorkerToken ==
  {"test_get_me_worker", "test_get_users_worker_forbidden",
   "test_get_missed_calls", "test_update_call_status", "test_create_note",
   "test_get_notes", "test_get_stats"}

\* the case at entry i needs an id that no earlier case stored
SkipsNow ==
  /\ pc = "loop"
  /\ \/ Tests[i] \in DependsOnCall /\ test_call_id = Absent
     \/ Tests[i] \in DependsOnUser /\ test_user_id = Absent

\* the step changes nothing of the accounting, makes no request and the case
\* returns True
SkipEffect ==
  /\ net' = net
  /\ last'.ret = "True"
  /\ tests_run' = tests_run
  /\ tests_passed' = tests_passed
  /\ failed_tests' = failed_tests

\* the step appends exactly record r to the failures list
Appends(r) == failed_tests' = Append(failed_tests, r)

\* C1 as stated: every invocation of a test case increases tests_run by
\* exactly 1, whatever its outcome.
C1_EveryCaseCounts == [][InvokesCase => tests_run' = tests_run + 1]_vars

\* C1 amended: an invocation of a test case increases tests_run by exactly 1
\* and makes one request whatever the outcome of the request, except that a
\* dependent case whose id was never stored returns before run_test and
\* leaves tests_run unchanged.
C1_CountsUnlessSkipped ==
  [][InvokesCase =>
       /\ SkipsNow => tests_run' = tests_run /\ net' = net
       /\ ~SkipsNow => tests_run' = tests_run + 1 /\ net' = net + 1]_vars

\* C1: Update Call Status was skipped after twelve counted cases.
C1_Witness == last.case = 13 /\ ~last.call.called /\ tests_run = 12

\* C2 as stated: tests_passed <= tests_run always, and at the end of the run
\* tests_passed = tests_run exactly when the failures list is empty.
C2_PassedEqualsRunIffNoFailures ==
  /\ tests_passed <= tests_run
  /\ pc = "done" => (tests_passed = tests_run <=> failed_tests = <<>>)

C3_Safe ==
  /\ pc # "crashed"
  /\ pc \in {"report", "done"} => tests_run >= 1
  /\ pc = "done" => /\ exit_code \in {0, 1}
                    /\ exit_code = 0 <=> tests_passed = tests_run

\* C3: main() returns 0 exactly when tests_passed = tests_run at the end and 1
\* otherwise; the success rate never divides by zero and the return is
\* always reached.
C3_ExitCode == []C3_Safe /\ <>(pc = "done")

\* C3: a run that ended with exit code 1.
C3_Witness == pc = "done" /\ exit_code = 1 /\ tests_passed < tests_run

\* C4 as stated: the exit code is 0 when no failure was recorded and 1 when at
\* least one FailureRecord was appended, by run_test or by the driver.
C4_FailureMeansExitOne ==
  pc = "done" => exit_code = (IF failed_tests = <<>> THEN 0 ELSE 1)

\* C5 as stated, for one dependent case: saw is what the creating case
\* observed and id the attribute it stores.
C5_AsStated(saw, id) ==
  /\ saw = "other" => id = Absent /\ SkipEffect
  /\ saw = "expected" => net' = net + 1

\* C5 as stated: the dependent cases are skipped without a request and
\* without a change of the accounting when the creating case did not observe
\* its expected status, and issue exactly one request when it did.
C5_SkippedIffCreateFailed ==
  [][InvokesCase =>
       /\ Tests[i] \in DependsOnUser => C5_AsStated(observed.user, test_user_id)
       /\ Tests[i] \in DependsOnCall => C5_AsStated(observed.call, test_call_id)]_vars

C5_Amended(saw, id) ==
  /\ saw = "other" => id = Absent
  /\ id = Absent => SkipEffect
  /\ id # Absent => net' = net + 1 /\ tests_run' = tests_run + 1

\* the creating case stores the id exactly when it observed its expected
\* status and did not raise on the response body
C5_Stores(f, saw, id) ==
  Tests[i] = f => (id # Absent <=> saw = "expected" /\ last'.ret # "raise")

\* C5 amended: the dependent cases are skipped (True, no request, accounting
\* unchanged) when the id was never stored, which is the case when the
\* creating case did not observe its expected status and also when it did
\* but raised on a body that is not a JSON object; they issue exactly one
\* request when the id was stored.
C5_SkippedIffNotStored ==
  [][InvokesCase =>
       /\ Tests[i] \in DependsOnUser => C5_Amended(observed.user, test_user_id)
       /\ Tests[i] \in DependsOnCall => C5_Amended(observed.call, test_call_id)
       /\ C5_Stores("test_create_user", observed'.user, test_user_id')
       /\ C5_Stores("test_create_missed_call", observed'.call, test_call_id')]_vars

\* C5: Change Password was skipped after Create User saw another status.
C5_Witness == last.case = 17 /\ ~last.call.called /\ observed.user = "other"

\* the case at entry i depends on a captured value that is not there
C6_ValueAbsent ==
  \/ SkipsNow
  \/ Tests[i] \in UsesAdminToken /\ admin_token = PyNone
  \/ Tests[i] \in UsesWorkerToken /\ worker_token = PyNone

C6_Token(token) ==
  /\ token = PyNone => ~last'.call.request.authorization
  /\ token = PyStr(V_token) => last'.call.request.authorization

C7_Order ==
  <<"API Health Check", "Initialize Users", "Admin Login",
    "Worker Login (maria)", "Invalid Login", "Get Me (Admin)",
    "Get Me (Worker)", "Get Users (Admin)",
    "Get Users (Worker - Should Fail)", "Create User", "Create Missed Call",
    "Get Missed Calls", "Update Call Status", "Create Note", "Get Notes",
    "Get Stats", "Change User Password", "Delete User">>

C7_Step ==
  /\ pc = "loop" => InvokesCase
  /\ InvokesCase =>
       /\ last'.case = i
       /\ last'.call.called => last'.call.name = C7_Order[i]
       /\ pc' = IF i = 18 THEN "report" ELSE "loop"
       /\ last'.ret = "raise" =>
            /\ Len(failed_tests') = Len(failed_tests) + 1
            /\ DOMAIN failed_tests'[Len(failed_tests')] = {"test", "error"}
            /\ failed_tests'[Len(failed_tests')].test = TestNames[i]

\* C7: the driver invokes the 18 cases once each in the fixed order; whatever
\* a case does the next one is invoked; an exception of a case body is
\* recorded as a {test, error} record; the run reaches the report and returns
\* an exit code.
C7_RunsAllCases ==
  /\ [][C7_Step]_vars
  /\ [](pc = "done" => i = 19 /\ last.case = 18)
  /\ <>(pc = "done" /\ exit_code \in {0, 1})

\* C7: a run in which a case raised and that still returned.
C7_Witness == pc = "done" /\ caught = 1 /\ last.case = 18

\* C8: on a status mismatch run_test appends one record with the name, the
\* expected and the actual status and the first 200 characters of the raw
\* text, leaves tests_passed unchanged and returns (False, {}).
C8_MismatchRecorded ==
  [][(/\ InvokesCase
      /\ last'.call.called
      /\ last'.call.answer.kind = "resp"
      /\ last'.call.answer.status # last'.call.expected) =>
       LET c == last'.call
           text == c.answer.text
           n == IF Len(text) < 200 THEN Len(text) ELSE 200
           r == failed_tests'[Len(failed_tests')]
       IN /\ Len(failed_tests') = Len(failed_tests) + 1
          /\ SubSeq(failed_tests', 1, Len(failed_tests)) = failed_tests
          /\ DOMAIN r = {"test", "expected", "actual", "response"}
          /\ r.test = c.name
          /\ r.expected = c.expected
          /\ r.actual = c.answer.status
          /\ Len(r.response) = n
          /\ \A j \in 1..n : r.response[j] = text[j]
          /\ tests_passed' = tests_passed
          /\ ~c.success
          /\ c.response = EmptyDict
          /\ (Tests[i] = "test_invalid_login" /\ c.answer.status = 200) =>
               r.test = "Invalid Login" /\ r.expected = 401 /\ r.actual = 200]_vars

\* C8: a mismatch whose raw text is longer than 200 characters was recorded.
C8_Witness ==
  /\ last.call.called
  /\ last.call.answer.kind = "resp"
  /\ last.call.answer.status # last.call.expected
  /\ Len(last.call.answer.text) > 200
  /\ Len(failed_tests[Len(failed_tests)].response) = 200

\* the answer has the expected status and a body that is not JSON
C9_BadJson(c) ==
  /\ c.answer.kind = "resp"
  /\ c.answer.status = c.expected
  /\ ResponseJson(c.answer.text).raised

\* C9 as stated: a transport error and a non-JSON body where a body was
\* expected are each recorded as a FailureRecord and reported as (False, {}).
C9_ErrorsAndBadJsonRecorded ==
  [][(/\ InvokesCase
      /\ last'.call.called
      /\ last'.call.answer.kind = "error" \/ C9_BadJson(last'.call)) =>
       /\ Len(failed_tests') = Len(failed_tests) + 1
       /\ ~last'.call.success
       /\ last'.call.response = EmptyDict]_vars

\* C9 amended: run_test never raises.  A network failure or timeout is
\* recorded as a {test, error} record and reported as (False, {}).  A body
\* that is not JSON (or is empty) under the expected status is no failure: the
\* test is counted as passed, nothing is recorded and (True, {}) is returned.
C9_ErrorsRecordedBadJsonPasses ==
  [][(InvokesCase /\ last'.call.called) =>
       LET c == last'.call
       IN /\ c.answer.kind = "error" =>
               /\ Appends([test |-> c.name, error |-> c.answer.error])
               /\ tests_passed' = tests_passed
               /\ ~c.success
               /\ c.response = EmptyDict
          /\ C9_BadJson(c) =>
               /\ failed_tests' = failed_tests
               /\ tests_passed' = tests_passed + 1
               /\ c.success
               /\ c.response = EmptyDict
               /\ last'.ret # "raise"
          /\ ~c.success => last'.ret = "False"]_vars

\* C9: a case passed on an HTML body under the expected status.
C9_Witness ==
  /\ last.call.called
  /\ last.call.success
  /\ last.call.answer.text = BodyHtml
  /\ last.call.response = EmptyDict

C10_Counts ==
  /\ rt_failed = tests_run - tests_passed
  /\ Len(failed_tests) = rt_failed + caught

C10_Step ==
  (InvokesCase /\ last'.call.called) =>
    \/ tests_passed' = tests_passed + 1 /\ rt_failed' = rt_failed
    \/ tests_passed' = tests_passed /\ rt_failed' = rt_failed + 1

\* C10: a call of run_test either counts a pass and appends nothing or
\* appends one record and counts no pass; so the records of run_test number
\* tests_run - tests_passed and the list holds that many plus one for each
\* exception the driver caught.
C10_Accounting == []C10_Counts /\ [][C10_Step]_vars

\* C10: every counted test passed and the list holds the one record of an
\* exception the driver caught.
C10_Witness ==
  /\ caught = 1
  /\ rt_failed = 0
  /\ tests_passed = tests_run
  /\ Len(failed_tests) = 1

====
